---- MODULE Spec2Model ----
(***************************************************************************)
(* A model of the iconscraper package: the HTTP worker pool (requests.go), *)
(* the probe body (imageProcessing.go), the HTML and manifest discovery    *)
(* (html.go, manifest.go) and the entry points GetIcons / GetIcon with the *)
(* per-domain worker processDomain (scraper.go).                           *)
(*                                                                         *)
(* Go channel semantics used throughout: a send on an unbuffered channel   *)
(* completes together with the matching receive; a send on a closed        *)
(* channel (also one that was blocked when the channel got closed) panics, *)
(* and a panic in any goroutine ends the whole process.                    *)
(***************************************************************************)
EXTENDS Integers, Sequences, FiniteSets, TLC

\* ------------------------------------------------------------------ bounds
NumDomains == 2
MaxCands == 3
MaxHead == 1
MaxManifestIcons == 1
MaxDim == 2
\* MaxConcurrentRequests is Config.MaxConcurrentRequests of the call.
MaxConcurrentRequests == 2
MaxElems == 2
\* httpGet's attempt limit (the 6 of its for loop).
MaxAttempts == 6

Domains == 1..NumDomains
MaxSpawn == 1 + MaxHead * (IF MaxManifestIcons > 1 THEN MaxManifestIcons ELSE 1)
\* A caller of pool.get: <<d, 0>> is the goroutine running processDomain for
\* domain d (root page and manifest fetches), <<d, i>> its i-th probe.
Callers == Domains \X (0..MaxSpawn)
Probes == Domains \X (1..MaxSpawn)

\* The nil *Icon / *imageData.
Nil == [src |-> <<0, 0>>, width |-> 0, height |-> 0]
\* A body that was not read.
NoBody == [kind |-> "none"]

\* ------------------------------------------------------------ the transport
\* What one attempt (client.Do + ReadAll) can do.
AttemptOutcomes == {"neterr", "s500", "readerr", "s200", "s404"}
\* A loop that also goes round again on a 4xx response.
RetryableWith4xx(o) == o \in {"neterr", "s500", "readerr", "s404"}

Retryable(o) == o \in {"neterr", "s500", "readerr"}
StatusOf(o) == IF o = "s200" THEN 200 ELSE IF o = "s404" THEN 404 ELSE 0

\* httpGet's loop over a script of attempt outcomes (the script is what the
\* transport answers, attempt after attempt): err is set by every failed
\* attempt and overwritten (to nil) only by an attempt that reads a body.
RECURSIVE httpLoop(_, _, _)
httpLoop(script, attempt, last) ==
  IF attempt >= MaxAttempts \/ attempt >= Len(script)
  THEN last
  ELSE LET o == script[attempt + 1] IN
       IF Retryable(o)
       THEN httpLoop(script, attempt + 1, [err |-> TRUE, status |-> 0, attempts |-> attempt + 1])
       ELSE [err |-> FALSE, status |-> StatusOf(o), attempts |-> attempt + 1]

\* httpGet that reads the body into variables of the loop's own scope
\* (`body, err := ...`): the err of an earlier failed attempt is still set
\* after the loop.
httpGetKeepsErr(script) ==
  LET r == httpLoop(script, 0, [err |-> FALSE, status |-> 0, attempts |-> 0]) IN
  IF r.attempts > 1 THEN [err |-> TRUE, status |-> 0, attempts |-> r.attempts] ELSE r

httpGet(script) == httpLoop(script, 0, [err |-> FALSE, status |-> 0, attempts |-> 0])

Repeat(o, k) == [i \in 1..k |-> o]
\* The transport scripts the workers are run against: k retryable failures
\* followed by a response, for a few k, and MaxAttempts failures.
Scripts ==
  { Repeat(f, k) \o <<l>> : f \in {"neterr", "s500"}, k \in {0, 2}, l \in {"s200", "s404"} }
  \cup { Repeat(f, MaxAttempts) : f \in {"neterr", "readerr"} }

\* ------------------------------------------------------------------ bodies
\* A page is the sequence of the head's children, each seen as getImagesFromHTML
\* sees it: an icon reference, a manifest link, or something it skips.
HeadElems == {"icon", "manifest", "other"}
Pages == UNION { [1..n -> HeadElems] : n \in 0..MaxHead }
Dims == (1..MaxDim) \X {MaxDim}
\* Bodies by what their reader makes of them.
RootBodies == [kind : {"html"}, page : Pages] \cup {[kind |-> "badhtml"]}
ManifestBodies == [kind : {"json"}, icons : 0..MaxManifestIcons] \cup {[kind |-> "badjson"]}
ProbeBodies ==
  [kind : {"image", "ico"}, dim : Dims]
  \cup {[kind |-> "notimage"], [kind |-> "badimage"], [kind |-> "badico"]}
\* An SVG document: text to the content sniffer, with no pixel dimensions.
SvgBody == [kind |-> "svg", dim |-> <<0, 0>>]
\* isImage(body): the sniffed content type of the body starts with "image/".
isImage(body) == body.kind \in {"image", "ico", "badimage", "badico"}

\* ------------------------------------------------------------------- state
VARIABLES
  mode,          \* "GetIcons" or "GetIcon": the entry point that was called
  ndom,          \* len(domains) of the call
  valid,         \* valid[d]: couldBeDomain(domains[d])
  config,        \* the Config of the call (SquareOnly, TargetHeight, the sinks: nil or not, drained or not)
  mainpc,        \* where the calling goroutine is in GetIcons / GetIcon
  idx,           \* GetIcons' loop index: results received so far
  resultMap,     \* GetIcons' resultMap (GetIcon: the value it returns, under key 1)
  resbuf,        \* the buffer of the results channel (capacity 1 in GetIcon, 0 in GetIcons)
  resultsClosed, \* close(results) has run
  jobsq,         \* senders blocked on pool.jobs, in arrival order
  jobsClosed,    \* close(pool.jobs) has run
  idle,          \* worker goroutines blocked in `range pool.jobs`
  inflight,      \* the callers whose job a worker has taken and not yet answered
  exited,        \* worker goroutines that have returned (pool.wg.Done() calls)
  errorsClosed,  \* close(config.Errors) has run (default sink only)
  warningsClosed,\* close(config.Warnings) has run (default sink only)
  errorsLog,     \* errorsLog[d]: reports received on config.Errors on behalf of domain d
  warningsLog,   \* the same for config.Warnings
  opc,           \* opc[d]: where processDomain(domains[d]) is
  out,           \* out[d]: the result processDomain is about to send
  page,          \* page[d]: head children getImagesFromHTML has still to visit
  served,        \* head children the pages served in this call had, in total
  spawned,       \* spawned[d]: workers.spawn calls so far (the task group's count)
  collected,     \* collected[d]: receive steps workers.results() has made
  images,        \* images[d]: the icons results() has accumulated, in arrival order
  failures,      \* failures[d]: failure signals results() has consumed
  ppc,           \* ppc[c]: where probe c (workers.getImage) is
  todo,          \* todo[c]: the channel operations probe c has still to perform
  picon,         \* picon[c]: the imageData probe c built
  sent,          \* sent[c]: the signals probe c has sent so far, in order
  delivered,     \* delivered[d]: results of domain d the caller has received
  requests,      \* requests[d]: jobs processDomain(d) itself has submitted to the pool
  getAfterClose, \* some caller reached pool.get after close(pool.jobs)
  panicked,      \* a goroutine panicked: the process is gone
  host,          \* host[d]: processDomain's redirectDomain (NoHost until it is set)
  ourl,          \* ourl[d]: the url of processDomain's latest http.get (root page or manifest)
  purl,          \* purl[c]: the url probe c was spawned with
  fn,            \* the function under study when one is run on its own ("none" in a call)
  arg,           \* its arguments
  ret            \* its return value (<<>> until it has returned)

cfgVars == <<mode, ndom, valid, config>>
mainVars == <<mainpc, idx, resultMap, resbuf, resultsClosed, delivered>>
poolVars == <<jobsq, jobsClosed, idle, inflight, exited, getAfterClose>>
sinkVars == <<errorsClosed, warningsClosed, errorsLog, warningsLog>>
orchVars == <<opc, out, page, served, spawned, collected, images, failures, requests>>
probeVars == <<ppc, todo, picon, sent>>
unitVars == <<fn, arg, ret>>
urlVars == <<host, ourl, purl>>
vars == <<cfgVars, mainVars, poolVars, sinkVars, orchVars, probeVars, panicked, unitVars, urlVars>>

CallDomains == 1..ndom
Orch(d) == <<d, 0>>

\* -------------------------------------------------------------------- urls
\* A string is the sequence of its parts: the scheme prefix, a host name, a
\* slash, a path segment. The domain strings of the call are the names of
\* 1..NumDomains.
Scheme == "https://"
Slash == "/"
Name(h) == ToString(h)
NoHost == ""
HostNames == {Name(h) : h \in 1..(2 * NumDomains)}

\* The hrefs the pages and manifests of the model carry.
FaviconPath == <<Slash, "favicon.ico">>
IconHref == <<"icon.png">>
ManifestHref == <<Slash, "manifest.json">>
IconSrc(i) == <<Slash, "icons", Slash, Name(i)>>

\* A path segment url.Parse rejects (an invalid escape such as "%zz").
BadEscape == "%zz"

\* isURL: url.ParseRequestURI and url.Parse accept the string, and it has a
\* scheme and a host.
isURL(str) ==
  /\ \A i \in 1..Len(str) : str[i] # BadEscape
  /\ Len(str) >= 2 /\ str[1] = Scheme /\ str[2] \in HostNames

\* `if !isURL(url) { url = "https://" + url }`, as getImage and httpGet
\* start.
withScheme(url) == IF ~isURL(url) THEN <<Scheme>> \o url ELSE url

\* http.NewRequest parses the url with url.Parse, which fails on an invalid
\* percent escape: then the request is nil and the error is set.
NewRequest(url) == \A i \in 1..Len(url) : url[i] # BadEscape

\* httpGet up to its first attempt: it completes the url, builds the request
\* and, when that failed, fills the httpResult it returns from `req.URL`, a
\* read through the nil request, which panics in the worker's goroutine.
httpGetRequest(url) ==
  LET u == withScheme(url) IN
  IF NewRequest(u) THEN [url |-> u, step |-> "Do"] ELSE [url |-> u, step |-> "panic"]

getURL(domain, path) ==
  IF Len(path) = 0 THEN <<Scheme, domain>>
  ELSE IF isURL(path) THEN path
  ELSE IF path[1] = Slash THEN <<Scheme, domain>> \o path
  ELSE <<Scheme, domain, Slash>> \o path

\* url.Host of a URL with scheme and host.
UrlHost(u) == u[2]

\* The transport's redirects: the root of every even-numbered domain of the
\* call redirects to another host, every other request is served where it was
\* sent. finalURL(u) is resp.Request.URL of the response to a request for u.
Redirected(d) == IF d % 2 = 0 THEN Name(d + NumDomains) ELSE Name(d)
finalURL(u) ==
  LET ds == {d \in Domains : u = <<Scheme, Name(d)>>}
  IN IF ds = {} THEN u ELSE <<Scheme, Redirected(CHOOSE d \in ds : TRUE)>>

\* ---------------------------------------------------------- pure functions
\* getImage whose ICO branch reports the dimension error and returns without
\* signalling.
getImageSilentIco(r) ==
  IF r.err THEN <<"errors", "failure">>
  ELSE IF r.status # 200 \/ ~isImage(r.body) THEN <<"failure">>
  ELSE IF r.body.kind \in {"ico", "badico"}
       THEN (IF r.body.kind = "badico" THEN <<"errors">> ELSE <<"result">>)
  ELSE IF r.body.kind = "badimage" THEN <<"errors", "failure">>
  ELSE <<"result">>

\* getImage whose ICO branch lacks its `return` and runs on into the generic
\* decode, which sends the image a second time.
getImageIcoFallsThrough(r) ==
  IF r.err THEN <<"errors", "failure">>
  ELSE IF r.status # 200 \/ ~isImage(r.body) THEN <<"failure">>
  ELSE IF r.body.kind \in {"ico", "badico"}
       THEN (IF r.body.kind = "badico" THEN <<"errors", "failure">>
             ELSE <<"result", "result">>)
  ELSE IF r.body.kind = "badimage" THEN <<"errors", "failure">>
  ELSE <<"result">>

\* getImage that signals the failure of a transport error before it reports
\* it.
getImageFailsFirst(r) ==
  IF r.err THEN <<"failure", "errors">>
  ELSE IF r.status # 200 \/ ~isImage(r.body) THEN <<"failure">>
  ELSE IF r.body.kind \in {"ico", "badico"}
       THEN (IF r.body.kind = "badico" THEN <<"errors", "failure">> ELSE <<"result">>)
  ELSE IF r.body.kind = "badimage" THEN <<"errors", "failure">>
  ELSE <<"result">>

\* getImage that tests the status alone before decoding, so that a body that
\* is not an image reaches image.Decode and is reported.
getImageDecodesAnything(r) ==
  IF r.err THEN <<"errors", "failure">>
  ELSE IF r.status # 200 THEN <<"failure">>
  ELSE IF r.body.kind \in {"ico", "badico"}
       THEN (IF r.body.kind = "badico" THEN <<"errors", "failure">> ELSE <<"result">>)
  ELSE IF r.body.kind \in {"badimage", "notimage", "svg"} THEN <<"errors", "failure">>
  ELSE <<"result">>

\* getImage that takes an SVG document for an image and sends it as a result.
getImageAcceptsSvg(r) ==
  IF r.err THEN <<"errors", "failure">>
  ELSE IF r.status # 200 \/ ~(isImage(r.body) \/ r.body.kind = "svg") THEN <<"failure">>
  ELSE IF r.body.kind \in {"ico", "badico"}
       THEN (IF r.body.kind = "badico" THEN <<"errors", "failure">> ELSE <<"result">>)
  ELSE IF r.body.kind = "badimage" THEN <<"errors", "failure">>
  ELSE <<"result">>

\* getImage after pool.get returned r: the channel operations it performs, in
\* order ("errors": a report on workers.errors, "failure": a send on
\* failureChan, "result": a send of the imageData on resultChan).
getImage(r) ==
  IF r.err THEN <<"errors", "failure">>
  ELSE IF r.status # 200 \/ ~isImage(r.body) THEN <<"failure">>
  ELSE IF r.body.kind \in {"ico", "badico"}
       THEN (IF r.body.kind = "badico" THEN <<"errors", "failure">> ELSE <<"result">>)
  ELSE IF r.body.kind = "badimage" THEN <<"errors", "failure">>
  ELSE <<"result">>

\* The imageData getImage builds on its success paths.
imageData(c, r) == [src |-> c, width |-> r.body.dim[1], height |-> r.body.dim[2]]

\* pickBestImage's loop with `<=` and `>=` in its two comparisons: of images
\* of equal height the later one is kept.
RECURSIVE pickScanLastWins(_, _, _, _)
pickScanLastWins(squareOnly, targetHeight, imgs, k) ==
  IF k = 0 THEN <<0, 0>>
  ELSE LET st == pickScanLastWins(squareOnly, targetHeight, imgs, k - 1)
           image == imgs[k]
           smallestOk ==
             IF image.height - targetHeight >= 0
                /\ (st[2] = 0 \/ image.height <= imgs[st[2]].height)
             THEN k ELSE st[2]
           largest ==
             IF st[1] = 0 \/ image.height >= imgs[st[1]].height THEN k ELSE st[1]
       IN IF squareOnly /\ image.width # image.height THEN st
          ELSE <<largest, smallestOk>>

\* pickBestImage's loop: st = <<largestImage, smallestOkImage>> as indices into
\* imgs (0 is the nil pointer), after the first k images.
RECURSIVE pickScan(_, _, _, _)
pickScan(squareOnly, targetHeight, imgs, k) ==
  IF k = 0 THEN <<0, 0>>
  ELSE LET st == pickScan(squareOnly, targetHeight, imgs, k - 1)
           image == imgs[k]
           smallestOk ==
             IF image.height - targetHeight >= 0
                /\ (st[2] = 0 \/ image.height < imgs[st[2]].height)
             THEN k ELSE st[2]
           largest ==
             IF st[1] = 0 \/ image.height > imgs[st[1]].height THEN k ELSE st[1]
       IN IF squareOnly /\ image.width # image.height THEN st
          ELSE <<largest, smallestOk>>

\* pickBestImage without the `continue` of its square test: every image is
\* compared, whatever its shape.
pickBestImageAnyShape(squareOnly, targetHeight, imgs) ==
  LET st == pickScan(FALSE, targetHeight, imgs, Len(imgs)) IN
  IF st[2] # 0 THEN imgs[st[2]]
  ELSE IF st[1] # 0 THEN imgs[st[1]]
  ELSE Nil

\* pickBestImage that returns the largest image whenever there is one.
pickBestImagePrefersLargest(squareOnly, targetHeight, imgs) ==
  LET st == pickScan(squareOnly, targetHeight, imgs, Len(imgs)) IN
  IF st[1] # 0 THEN imgs[st[1]]
  ELSE Nil

\* pickBestImage that ends with `return smallestOkImage`.
pickBestImageNoFallback(squareOnly, targetHeight, imgs) ==
  LET st == pickScan(squareOnly, targetHeight, imgs, Len(imgs)) IN
  IF st[2] # 0 THEN imgs[st[2]]
  ELSE Nil

pickBestImage(squareOnly, targetHeight, imgs) ==
  LET st == pickScan(squareOnly, targetHeight, imgs, Len(imgs)) IN
  IF st[2] # 0 THEN imgs[st[2]]
  ELSE IF st[1] # 0 THEN imgs[st[1]]
  ELSE Nil

\* ------------------------------------------------------ getImagesFromHTML
\* An element node: its tag (Data), the value of its rel attribute (link) or
\* itemprop attribute (meta) as key, the value of its href (link) or content
\* (meta) as val, and its children.
Element(data, key, val, kids) == [data |-> data, key |-> key, val |-> val, kids |-> kids]

iconRelValues == {"icon", "image_src", "apple-touch-icon", "shortcut icon", "img", "image"}
contains(list, target) == target \in list

\* The calls getImagesFromHTML makes for one child c of a head element, in
\* order: "processManifest" for processManifest(domain, url, workers),
\* "spawn" for workers.spawn(url).
headChild(c, domain) ==
  LET link ==
        IF c.data = "link"
        THEN IF c.key = "manifest"
             THEN (IF c.val # <<>>
                   THEN <<[op |-> "processManifest", url |-> getURL(domain, c.val)]>>
                   ELSE <<>>)
             ELSE IF contains(iconRelValues, c.key)
             THEN (IF c.val # <<>>
                   THEN <<[op |-> "spawn", url |-> getURL(domain, c.val)]>>
                   ELSE <<>>)
             ELSE <<>>
        ELSE <<>>
      meta ==
        IF c.data = "meta" /\ c.key = "image" /\ c.val # <<>>
        THEN <<[op |-> "spawn", url |-> getURL(domain, c.val)]>>
        ELSE <<>>
  IN link \o meta

\* The loop over the first k children of a head element.
RECURSIVE headLoop(_, _, _)
headLoop(kids, k, domain) ==
  IF k = 0 THEN <<>>
  ELSE headLoop(kids, k - 1, domain) \o headChild(kids[k], domain)

\* getImagesFromHTML(node, domain, workers): the calls it makes, in order.
\* The children of a head element are looked at one by one; any other node
\* is descended into.
RECURSIVE getImagesFromHTML(_, _)
RECURSIVE descend(_, _, _)
descend(kids, k, domain) ==
  IF k = 0 THEN <<>>
  ELSE descend(kids, k - 1, domain) \o getImagesFromHTML(kids[k], domain)

\* getImagesFromHTML that looks at the children of the body as it does at
\* those of the head.
getImagesFromHTMLBodyToo(node, domain) ==
  IF node.data \in {"head", "body"}
  THEN headLoop(node.kids, Len(node.kids), domain)
  ELSE descend(node.kids, Len(node.kids), domain)

getImagesFromHTML(node, domain) ==
  IF node.data = "head"
  THEN headLoop(node.kids, Len(node.kids), domain)
  ELSE descend(node.kids, Len(node.kids), domain)

\* GetIcons' collection loop `for idx := 0; idx < len(domains); idx++` after
\* i iterations: it goes on receiving, or the function returns and its
\* deferred calls start.
AfterReceive(i) == IF i < ndom THEN "collect" ELSE "closeResults"

\* A pool whose start loop runs once too often (`i <= workers`).
newHttpWorkerPoolOneMore(workers) == workers + 1

\* newHttpWorkerPool(workers): the number of worker goroutines it starts, which
\* is also the count its WaitGroup is set to.
newHttpWorkerPool(workers) == workers

\* -------------------------------------------------------------------- Init
Init ==
  /\ mode \in {"GetIcons", "GetIcon"}
  /\ ndom \in (IF mode = "GetIcon" THEN {1} ELSE 0..NumDomains)
  \* The orchestrators are started together and treated alike, so the invalid
  \* domains of the list are taken to be its first ones.
  /\ valid \in {f \in [Domains -> BOOLEAN] :
                  /\ \A d \in Domains : d > ndom => f[d]
                  /\ \A d, e \in Domains : d < e /\ f[d] => f[e]}
  /\ config \in {c \in [SquareOnly : {TRUE}, TargetHeight : {MaxDim},
                       ErrorsNil : BOOLEAN, WarningsNil : BOOLEAN,
                       ErrorsDrained : BOOLEAN] :
                    /\ c.WarningsNil = c.ErrorsNil
                    /\ c.ErrorsNil => c.ErrorsDrained}
  /\ mainpc = (IF mode = "GetIcon" THEN "call" ELSE AfterReceive(0))
  /\ idx = 0
  /\ resultMap = <<>>
  /\ resbuf = <<>>
  /\ resultsClosed = FALSE
  /\ jobsq = <<>>
  /\ jobsClosed = FALSE
  /\ idle = newHttpWorkerPool(MaxConcurrentRequests)
  /\ inflight = {}
  /\ exited = 0
  /\ errorsClosed = FALSE
  /\ warningsClosed = FALSE
  /\ errorsLog = [d \in Domains |-> 0]
  /\ warningsLog = [d \in Domains |-> 0]
  /\ opc = [d \in Domains |-> IF d <= ndom THEN "Validating" ELSE "Absent"]
  /\ out = [d \in Domains |-> Nil]
  /\ page = [d \in Domains |-> <<>>]
  /\ served = 0
  /\ spawned = [d \in Domains |-> 0]
  /\ collected = [d \in Domains |-> 0]
  /\ images = [d \in Domains |-> <<>>]
  /\ failures = [d \in Domains |-> 0]
  /\ ppc = [c \in Probes |-> "unborn"]
  /\ todo = [c \in Probes |-> <<>>]
  /\ picon = [c \in Probes |-> Nil]
  /\ sent = [c \in Probes |-> <<>>]
  /\ delivered = [d \in Domains |-> 0]
  /\ requests = [d \in Domains |-> 0]
  /\ getAfterClose = FALSE
  /\ panicked = FALSE
  /\ host = [d \in Domains |-> NoHost]
  /\ ourl = [d \in Domains |-> <<>>]
  /\ purl = [c \in Probes |-> <<>>]
  /\ fn = "none"
  /\ arg = <<>>
  /\ ret = <<>>

\* A goroutine panics: the process ends where it stands.
Panic ==
  /\ panicked' = TRUE
  /\ UNCHANGED <<unitVars, urlVars, cfgVars, mainVars, poolVars, sinkVars, orchVars, probeVars>>

\* ------------------------------------------------------- the worker pool
\* pool.get, first half: the send on pool.jobs. The caller joins the senders
\* blocked on the channel; on a closed channel the send panics.
SendJob(c) ==
  IF jobsClosed
  THEN /\ getAfterClose' = TRUE
       /\ panicked' = TRUE
       /\ UNCHANGED <<jobsq, jobsClosed, idle, inflight, exited>>
  ELSE /\ jobsq' = Append(jobsq, c)
       /\ UNCHANGED <<jobsClosed, idle, inflight, exited, getAfterClose, panicked>>

\* A pool whose workers receive from the sender that blocked last.
WorkerTakeNewest ==
  /\ ~panicked
  /\ idle > 0
  /\ ~jobsClosed
  /\ jobsq # <<>>
  /\ inflight' = inflight \cup {jobsq[Len(jobsq)]}
  /\ idle' = idle - 1
  /\ jobsq' = SubSeq(jobsq, 1, Len(jobsq) - 1)
  /\ UNCHANGED <<jobsClosed, exited, getAfterClose>>
  /\ UNCHANGED <<unitVars, urlVars, cfgVars, mainVars, sinkVars, orchVars, probeVars, panicked>>

\* worker: `for job := range pool.jobs` receives from the first blocked sender.
WorkerTake ==
  /\ ~panicked
  /\ idle > 0
  /\ ~jobsClosed
  /\ jobsq # <<>>
  /\ inflight' = inflight \cup {Head(jobsq)}
  /\ idle' = idle - 1
  /\ jobsq' = Tail(jobsq)
  /\ UNCHANGED <<jobsClosed, exited, getAfterClose>>
  /\ UNCHANGED <<unitVars, urlVars, cfgVars, mainVars, sinkVars, orchVars, probeVars, panicked>>

\* worker: the range loop ends on the closed channel; `defer pool.wg.Done()`.
WorkerExit ==
  /\ ~panicked
  /\ idle > 0
  /\ jobsClosed
  /\ idle' = idle - 1
  /\ exited' = exited + 1
  /\ UNCHANGED <<jobsq, jobsClosed, inflight, getAfterClose>>
  /\ UNCHANGED <<unitVars, urlVars, cfgVars, mainVars, sinkVars, orchVars, probeVars, panicked>>

\* A sender that was blocked on pool.jobs when it was closed panics.
BlockedSenderPanics ==
  /\ ~panicked
  /\ jobsClosed
  /\ jobsq # <<>>
  /\ Panic

\* ------------------------------------------------------------- the sinks
\* Someone receives from config.Errors: the logErrors goroutine GetIcons
\* starts when the caller gave no channel, or the caller draining its own.
ErrorsReceived == config.ErrorsNil \/ config.ErrorsDrained

\* A send that gives up when nobody receives (`select` with a `default`):
\* the report is dropped and the sender goes on.
SendErrorsOrDrop(d) ==
  IF errorsClosed
  THEN /\ panicked' = TRUE
       /\ UNCHANGED sinkVars
  ELSE IF ErrorsReceived
  THEN /\ errorsLog' = [errorsLog EXCEPT ![d] = @ + 1]
       /\ UNCHANGED <<errorsClosed, warningsClosed, warningsLog, panicked>>
  ELSE UNCHANGED <<sinkVars, panicked>>

\* `config.Errors <- err` on behalf of domain d, a send on an unbuffered
\* channel: it completes when the receiver (the default logger, or the
\* caller's own consumer) takes the report, and blocks while there is none;
\* the default channel is closed when the call returns, and a send on it
\* then panics.
SendErrors(d) ==
  IF errorsClosed
  THEN /\ panicked' = TRUE
       /\ UNCHANGED sinkVars
  ELSE /\ ErrorsReceived
       /\ errorsLog' = [errorsLog EXCEPT ![d] = @ + 1]
       /\ UNCHANGED <<errorsClosed, warningsClosed, warningsLog, panicked>>

\* ---------------------------------------------------------- the task group
\* workers.spawn(url) for each url of urls: the count goes up and a probe
\* goroutine starts on the url.
SpawnProbes(d, urls) ==
  LET n == Len(urls)
      new(c) == c[1] = d /\ c[2] > spawned[d] /\ c[2] <= spawned[d] + n
  IN /\ spawned' = [spawned EXCEPT ![d] = @ + n]
     /\ ppc' = [c \in Probes |-> IF new(c) THEN "get" ELSE ppc[c]]
     /\ purl' = [c \in Probes |-> IF new(c) THEN urls[c[2] - spawned[d]] ELSE purl[c]]

\* The number of receive steps workers.results() makes for n spawns.
CollectSteps(n) == n

\* getImagesFromHTML with p left to visit: the loop goes on, or the function
\* returns and processDomain calls workers.results().
Scanning(p) == IF p = <<>> THEN "Collecting" ELSE "Discovering"

\* --------------------------------------------------------- processDomain
\* `if !couldBeDomain(domain)`.
Validate(d) ==
  /\ ~panicked
  /\ opc[d] = "Validating"
  /\ opc' = [opc EXCEPT ![d] = IF valid[d] THEN "FetchingRoot" ELSE "ReportInvalid"]
  /\ UNCHANGED <<out, page, served, spawned, collected, images, failures, requests>>
  /\ UNCHANGED <<unitVars, urlVars, cfgVars, mainVars, poolVars, sinkVars, probeVars, panicked>>

\* The statement that follows each report of processDomain / processManifest.
AfterReport(pc) ==
  CASE pc = "ReportInvalid" -> "SendInvalid"
    [] pc = "ReportFetch" -> "SendFetchFail"
    [] pc = "ReportParse" -> "SendParseFail"
    [] pc = "ReportManifest" -> "Discovering"

\* The `config.Errors <- ...` of processDomain (invalid domain, failed root
\* fetch, HTML parse error) and the `workers.errors <- ...` of processManifest.
Report(d) ==
  /\ ~panicked
  /\ opc[d] \in {"ReportInvalid", "ReportFetch", "ReportParse", "ReportManifest"}
  /\ SendErrors(d)
  /\ IF errorsClosed
     THEN UNCHANGED orchVars
     ELSE /\ opc' = [opc EXCEPT ![d] =
                    IF opc[d] = "ReportManifest" THEN Scanning(page[d])
                    ELSE AfterReport(opc[d])]
          /\ out' = [out EXCEPT ![d] = IF opc[d] = "ReportManifest" THEN out[d] ELSE Nil]
          /\ UNCHANGED <<page, served, spawned, collected, images, failures, requests>>
  /\ UNCHANGED <<unitVars, urlVars, cfgVars, mainVars, poolVars, probeVars>>

\* The statement that follows each `result <- processReturn{...}`: the three
\* sends that are followed by `return` (or end the function) finish
\* processDomain; the send of the invalid-domain branch is followed by the
\* closing brace of the `if` and then by `url := "https://" + domain`.
AfterSend(pc) ==
  IF pc = "SendInvalid" THEN "FetchingRoot" ELSE "Done"

SendPcs == {"SendInvalid", "SendFetchFail", "SendParseFail", "SendResult"}

\* The map update of GetIcons' collection loop.
Store(m, d, v) == IF v # Nil THEN (d :> v) @@ m ELSE m

\* `result <- processReturn{...}` in GetIcons: the results channel is
\* unbuffered, the send completes with `res := <-results` of the collection
\* loop, which stores the icon unless it is nil.
SendResultToLoop(d) ==
  /\ ~panicked
  /\ mode = "GetIcons"
  /\ opc[d] \in SendPcs
  /\ IF resultsClosed
     THEN Panic
     ELSE /\ mainpc = "collect"
          /\ idx < ndom
          /\ idx' = idx + 1
          /\ resultMap' = Store(resultMap, d, out[d])
          /\ delivered' = [delivered EXCEPT ![d] = @ + 1]
          /\ opc' = [opc EXCEPT ![d] = AfterSend(opc[d])]
          /\ mainpc' = AfterReceive(idx + 1)
          /\ UNCHANGED <<resbuf, resultsClosed>>
          /\ UNCHANGED <<out, page, served, spawned, collected, images, failures, requests>>
          /\ UNCHANGED <<unitVars, urlVars, cfgVars, poolVars, sinkVars, probeVars, panicked>>

\* `result <- processReturn{...}` in GetIcon: results has a buffer of one.
SendResultToBuffer(d) ==
  /\ ~panicked
  /\ mode = "GetIcon"
  /\ opc[d] \in SendPcs
  /\ IF resultsClosed
     THEN Panic
     ELSE /\ Len(resbuf) < 1
          /\ resbuf' = Append(resbuf, out[d])
          /\ opc' = [opc EXCEPT ![d] = AfterSend(opc[d])]
          /\ UNCHANGED <<mainpc, idx, resultMap, resultsClosed, delivered>>
          /\ UNCHANGED <<out, page, served, spawned, collected, images, failures, requests>>
          /\ UNCHANGED <<unitVars, urlVars, cfgVars, poolVars, sinkVars, probeVars, panicked>>

\* `httpResult := http.get(url)`, the send half.
FetchRoot(d) ==
  /\ ~panicked
  /\ opc[d] = "FetchingRoot"
  /\ SendJob(Orch(d))
  /\ IF jobsClosed
     THEN UNCHANGED orchVars
     ELSE /\ opc' = [opc EXCEPT ![d] = "AwaitRoot"]
          /\ requests' = [requests EXCEPT ![d] = @ + 1]
          /\ UNCHANGED <<out, page, served, spawned, collected, images, failures>>
  /\ ourl' = [ourl EXCEPT ![d] = <<Scheme, Name(d)>>]
  /\ UNCHANGED <<host, purl>>
  /\ UNCHANGED <<unitVars, cfgVars, mainVars, sinkVars, probeVars>>

\* processDomain that goes on with the domain it was given instead of
\* httpResult.url.Host.
ParseKeepsDomain(d, r) ==
  /\ IF r.err
     THEN /\ opc' = [opc EXCEPT ![d] = "ReportFetch"]
          /\ UNCHANGED <<page, served, spawned, ppc, host, purl>>
     ELSE IF r.body.kind = "badhtml"
     THEN /\ opc' = [opc EXCEPT ![d] = "ReportParse"]
          /\ UNCHANGED <<page, served, spawned, ppc, host, purl>>
     ELSE LET redirectDomain == Name(d) IN
          /\ opc' = [opc EXCEPT ![d] = Scanning(r.body.page)]
          /\ page' = [page EXCEPT ![d] = r.body.page]
          /\ served' = served + Len(r.body.page)
          /\ host' = [host EXCEPT ![d] = redirectDomain]
          /\ SpawnProbes(d, << <<Scheme, redirectDomain>> \o FaviconPath >>)
  /\ UNCHANGED ourl
  /\ UNCHANGED <<out, collected, images, failures, requests>>
  /\ UNCHANGED <<todo, picon, sent>>

\* processDomain without the workers.spawn(url + "/favicon.ico").
ParseNoFavicon(d, r) ==
  /\ IF r.err
     THEN /\ opc' = [opc EXCEPT ![d] = "ReportFetch"]
          /\ UNCHANGED <<page, served, spawned, ppc, host, purl>>
     ELSE IF r.body.kind = "badhtml"
     THEN /\ opc' = [opc EXCEPT ![d] = "ReportParse"]
          /\ UNCHANGED <<page, served, spawned, ppc, host, purl>>
     ELSE LET redirectDomain == UrlHost(finalURL(ourl[d])) IN
          /\ opc' = [opc EXCEPT ![d] = Scanning(r.body.page)]
          /\ page' = [page EXCEPT ![d] = r.body.page]
          /\ served' = served + Len(r.body.page)
          /\ host' = [host EXCEPT ![d] = redirectDomain]
          /\ SpawnProbes(d, <<>>)
  /\ UNCHANGED ourl
  /\ UNCHANGED <<out, collected, images, failures, requests>>
  /\ UNCHANGED <<todo, picon, sent>>

\* processDomain that takes any status other than 200 of the root fetch for
\* a failed fetch.
processRootNeeds200(r) ==
  IF r.err \/ r.status # 200 THEN "ReportFetch"
  ELSE IF r.body.kind = "badhtml" THEN "ReportParse"
  ELSE "Discovering"

\* Where processDomain goes after http.get returned r for the root page:
\* only `httpResult.err != nil` ends the domain as a failed fetch, whatever
\* the status is; then the body is parsed.
processRoot(r) ==
  IF r.err THEN "ReportFetch"
  ELSE IF r.body.kind = "badhtml" THEN "ReportParse"
  ELSE "Discovering"

\* The probes processDomain spawns itself once the page is parsed.
rootSpawns(r, redirectDomain) ==
  IF processRoot(r) = "Discovering"
  THEN << <<Scheme, redirectDomain>> \o FaviconPath >>
  ELSE <<>>

\* http.get returned r: the error check, html.Parse, newImageWorkers and the
\* spawn of /favicon.ico.
Parse(d, r) ==
  /\ IF processRoot(r) # "Discovering"
     THEN /\ opc' = [opc EXCEPT ![d] = processRoot(r)]
          /\ UNCHANGED <<page, served, spawned, ppc, host, purl>>
     ELSE LET redirectDomain == UrlHost(finalURL(ourl[d])) IN
          /\ opc' = [opc EXCEPT ![d] = Scanning(r.body.page)]
          /\ page' = [page EXCEPT ![d] = r.body.page]
          /\ served' = served + Len(r.body.page)
          /\ host' = [host EXCEPT ![d] = redirectDomain]
          /\ SpawnProbes(d, rootSpawns(r, redirectDomain))
  /\ UNCHANGED ourl
  /\ UNCHANGED <<out, collected, images, failures, requests>>
  /\ UNCHANGED <<todo, picon, sent>>

\* getImagesFromHTML started as a goroutine of its own: processDomain goes on
\* to workers.results() at once and the links are spawned behind its back.
DiscoverDetached(d) ==
  /\ ~panicked
  /\ page[d] # <<>>
  /\ \/ /\ opc[d] = "Discovering"
        /\ opc' = [opc EXCEPT ![d] = "Collecting"]
        /\ UNCHANGED <<page, spawned, ppc, purl>>
     \/ /\ opc[d] = "Collecting"
        /\ page' = [page EXCEPT ![d] = Tail(@)]
        /\ IF Head(page[d]) = "icon"
           THEN SpawnProbes(d, <<getURL(host[d], IconHref)>>)
           ELSE UNCHANGED <<spawned, ppc, purl>>
        /\ UNCHANGED opc
  /\ UNCHANGED <<out, served, collected, images, failures, requests>>
  /\ UNCHANGED <<todo, picon, sent, host, ourl>>
  /\ UNCHANGED <<unitVars, cfgVars, mainVars, poolVars, sinkVars, panicked>>

\* getImagesFromHTML, one child of the head: an icon link or meta is spawned,
\* a manifest link starts processManifest (the send half of its http.get),
\* anything else is skipped.
Discover(d) ==
  /\ ~panicked
  /\ opc[d] = "Discovering"
  /\ IF Head(page[d]) = "manifest"
     THEN /\ SendJob(Orch(d))
          /\ IF jobsClosed
             THEN UNCHANGED <<opc, page, requests>>
             ELSE /\ opc' = [opc EXCEPT ![d] = "AwaitManifest"]
                  /\ page' = [page EXCEPT ![d] = Tail(@)]
                  /\ requests' = [requests EXCEPT ![d] = @ + 1]
          /\ ourl' = [ourl EXCEPT ![d] = getURL(host[d], ManifestHref)]
          /\ UNCHANGED <<spawned, ppc, purl>>
     ELSE /\ page' = [page EXCEPT ![d] = Tail(@)]
          /\ IF Head(page[d]) = "icon"
             THEN SpawnProbes(d, <<getURL(host[d], IconHref)>>)
             ELSE UNCHANGED <<spawned, ppc, purl>>
          /\ opc' = [opc EXCEPT ![d] = Scanning(Tail(page[d]))]
          /\ UNCHANGED <<requests, poolVars, panicked, ourl>>
  /\ UNCHANGED <<out, served, collected, images, failures>>
  /\ UNCHANGED <<todo, picon, sent, host>>
  /\ UNCHANGED <<unitVars, cfgVars, mainVars, sinkVars>>

\* processManifest after its http.get returned r, as the operations it
\* performs in order: a transport error, a status other than 200 and a JSON
\* error are each reported on workers.errors; otherwise one probe is spawned
\* per icon of the manifest.
processManifest(r) ==
  IF r.err THEN <<"errors">>
  ELSE IF r.status # 200 THEN <<"errors">>
  ELSE IF r.body.kind = "badjson" THEN <<"errors">>
  ELSE [i \in 1..r.body.icons |-> "spawn"]

ProcessManifest(d, r) ==
  /\ LET ops == processManifest(r) IN
     IF "errors" \in {ops[i] : i \in 1..Len(ops)}
     THEN /\ opc' = [opc EXCEPT ![d] = "ReportManifest"]
          /\ UNCHANGED <<spawned, ppc, purl>>
     ELSE /\ opc' = [opc EXCEPT ![d] = Scanning(page[d])]
          /\ SpawnProbes(d, [i \in 1..Len(ops) |-> getURL(host[d], IconSrc(i))])
  /\ UNCHANGED <<out, page, served, collected, images, failures, requests>>
  /\ UNCHANGED <<todo, picon, sent, host, ourl>>

\* workers.results(), one receive step: whichever probe of the group is
\* sending on resultChan or failureChan is received from.
Collect(d) ==
  /\ ~panicked
  /\ opc[d] = "Collecting"
  /\ collected[d] < CollectSteps(spawned[d])
  /\ \E c \in Probes :
       /\ c[1] = d
       /\ ppc[c] = "run"
       /\ todo[c] # <<>>
       /\ Head(todo[c]) \in {"result", "failure"}
       /\ IF Head(todo[c]) = "result"
          THEN /\ images' = [images EXCEPT ![d] = Append(@, picon[c])]
               /\ UNCHANGED failures
          ELSE /\ failures' = [failures EXCEPT ![d] = @ + 1]
               /\ UNCHANGED images
       /\ sent' = [sent EXCEPT ![c] = Append(@, Head(todo[c]))]
       /\ todo' = [todo EXCEPT ![c] = Tail(@)]
       /\ ppc' = [ppc EXCEPT ![c] = IF Tail(todo[c]) = <<>> THEN "done" ELSE "run"]
  /\ collected' = [collected EXCEPT ![d] = @ + 1]
  /\ UNCHANGED <<opc, out, page, served, spawned, requests, picon>>
  /\ UNCHANGED <<unitVars, urlVars, cfgVars, mainVars, poolVars, sinkVars, panicked>>

\* results() returns after its last receive step; pickBestImage runs over what
\* it accumulated.
Select(d) ==
  /\ ~panicked
  /\ opc[d] = "Collecting"
  /\ collected[d] >= CollectSteps(spawned[d])
  /\ out' = [out EXCEPT ![d] =
               pickBestImage(config.SquareOnly, config.TargetHeight, images[d])]
  /\ opc' = [opc EXCEPT ![d] = "SendResult"]
  /\ UNCHANGED <<page, served, spawned, collected, images, failures, requests>>
  /\ UNCHANGED <<unitVars, urlVars, cfgVars, mainVars, poolVars, sinkVars, probeVars, panicked>>

\* ---------------------------------------------------------------- getImage
\* `httpResult := workers.http.get(url)`, the send half.
ProbeGet(c) ==
  /\ ~panicked
  /\ ppc[c] = "get"
  /\ SendJob(c)
  /\ IF jobsClosed
     THEN UNCHANGED ppc
     ELSE ppc' = [ppc EXCEPT ![c] = "await"]
  /\ UNCHANGED <<todo, picon, sent>>
  /\ UNCHANGED <<unitVars, urlVars, cfgVars, mainVars, sinkVars, orchVars>>

\* http.get returned r: getImage classifies the result and is left with the
\* channel operations of the path it took.
ProbeClassify(c, r) ==
  /\ LET ops == getImage(r)
     IN /\ todo' = [todo EXCEPT ![c] = ops]
        /\ picon' = [picon EXCEPT ![c] =
                       IF "result" \in {ops[i] : i \in 1..Len(ops)}
                       THEN imageData(c, r) ELSE Nil]
        /\ ppc' = [ppc EXCEPT ![c] = IF ops = <<>> THEN "done" ELSE "run"]
  /\ UNCHANGED sent
  /\ UNCHANGED orchVars
  /\ UNCHANGED urlVars

\* `workers.errors <- ...` of getImage.
ProbeReport(c) ==
  /\ ~panicked
  /\ ppc[c] = "run"
  /\ todo[c] # <<>>
  /\ Head(todo[c]) = "errors"
  /\ SendErrors(c[1])
  /\ IF errorsClosed
     THEN UNCHANGED probeVars
     ELSE /\ todo' = [todo EXCEPT ![c] = Tail(@)]
          /\ ppc' = [ppc EXCEPT ![c] = IF Tail(todo[c]) = <<>> THEN "done" ELSE "run"]
          /\ UNCHANGED <<picon, sent>>
  /\ UNCHANGED <<unitVars, urlVars, cfgVars, mainVars, poolVars, orchVars>>

\* ----------------------------------------------------- the worker's answer
\* The httpResult of a job whose transport answers with `script`, read by a
\* caller that sees the body as `body`.
httpResult(script, body) ==
  LET r == httpGet(script) IN
  [err |-> r.err, status |-> r.status, body |-> IF r.err THEN NoBody ELSE body]

\* A pool whose jobs share one result channel: the result of the job of c is
\* received by whichever caller waits for a result.
WorkerDeliverShared ==
  /\ ~panicked
  /\ \E c \in inflight, e \in inflight :
       /\ inflight' = inflight \ {c}
       /\ idle' = idle + 1
       /\ \E script \in Scripts :
            IF e[2] # 0
            THEN \E body \in ProbeBodies : ProbeClassify(e, httpResult(script, body))
            ELSE IF opc[e[1]] = "AwaitRoot"
            THEN \E body \in RootBodies :
                   /\ body.kind = "html" => served + Len(body.page) <= MaxHead
                   /\ Parse(e[1], httpResult(script, body))
            ELSE \E body \in ManifestBodies : ProcessManifest(e[1], httpResult(script, body))
  /\ UNCHANGED <<jobsq, jobsClosed, exited, getAfterClose>>
  /\ UNCHANGED <<unitVars, cfgVars, mainVars, sinkVars, panicked>>

\* worker: `job.result <- httpGet(job.url)`. The caller is blocked receiving
\* on the job's own channel; it takes the result and runs on to its next
\* channel operation.
WorkerDeliver ==
  /\ ~panicked
  /\ \E c \in inflight :
       /\ inflight' = inflight \ {c}
       /\ idle' = idle + 1
       /\ \E script \in Scripts :
            IF c[2] # 0
            THEN \E body \in ProbeBodies : ProbeClassify(c, httpResult(script, body))
            ELSE IF opc[c[1]] = "AwaitRoot"
            THEN \E body \in RootBodies :
                   /\ body.kind = "html" => served + Len(body.page) <= MaxHead
                   /\ Parse(c[1], httpResult(script, body))
            ELSE \E body \in ManifestBodies : ProcessManifest(c[1], httpResult(script, body))
  /\ UNCHANGED <<jobsq, jobsClosed, exited, getAfterClose>>
  /\ UNCHANGED <<unitVars, cfgVars, mainVars, sinkVars, panicked>>

\* ------------------------------------------------------ GetIcons / GetIcon
\* GetIcon: processDomain has returned, `return (<-results).result`.
ReceiveOne ==
  /\ ~panicked
  /\ mode = "GetIcon"
  /\ mainpc = "call"
  /\ opc[1] = "Done"
  /\ resbuf # <<>>
  /\ resultMap' = Store(resultMap, 1, Head(resbuf))
  /\ resbuf' = Tail(resbuf)
  /\ delivered' = [delivered EXCEPT ![1] = @ + 1]
  /\ idx' = idx + 1
  /\ mainpc' = "closeResults"
  /\ UNCHANGED resultsClosed
  /\ UNCHANGED <<unitVars, urlVars, cfgVars, poolVars, sinkVars, orchVars, probeVars, panicked>>

\* The deferred calls run last-in first-out: close(results) ...
CloseResults ==
  /\ ~panicked
  /\ mainpc = "closeResults"
  /\ resultsClosed' = TRUE
  /\ mainpc' = "closeJobs"
  /\ UNCHANGED <<idx, resultMap, resbuf, delivered>>
  /\ UNCHANGED <<unitVars, urlVars, cfgVars, poolVars, sinkVars, orchVars, probeVars, panicked>>

\* ... http.close(): close(pool.jobs) ...
CloseJobs ==
  /\ ~panicked
  /\ mainpc = "closeJobs"
  /\ jobsClosed' = TRUE
  /\ mainpc' = "wait"
  /\ UNCHANGED <<jobsq, idle, inflight, exited, getAfterClose>>
  /\ UNCHANGED <<idx, resultMap, resbuf, resultsClosed, delivered>>
  /\ UNCHANGED <<unitVars, urlVars, cfgVars, sinkVars, orchVars, probeVars, panicked>>

\* An http.close() that closes pool.jobs and does not wait for the workers.
ReturnWithoutWait ==
  /\ ~panicked
  /\ mainpc = "wait"
  /\ warningsClosed' = config.WarningsNil
  /\ errorsClosed' = config.ErrorsNil
  /\ mainpc' = "returned"
  /\ UNCHANGED <<errorsLog, warningsLog>>
  /\ UNCHANGED <<idx, resultMap, resbuf, resultsClosed, delivered>>
  /\ UNCHANGED <<unitVars, urlVars, cfgVars, poolVars, orchVars, probeVars, panicked>>

\* The return with `defer close(config.Errors)` and `defer
\* close(config.Warnings)` outside the tests for nil: the channels are
\* closed whoever made them.
ReturnClosesSinks ==
  /\ ~panicked
  /\ mainpc = "wait"
  /\ exited >= newHttpWorkerPool(MaxConcurrentRequests)
  /\ warningsClosed' = TRUE
  /\ errorsClosed' = TRUE
  /\ mainpc' = "returned"
  /\ UNCHANGED <<errorsLog, warningsLog>>
  /\ UNCHANGED <<idx, resultMap, resbuf, resultsClosed, delivered>>
  /\ UNCHANGED <<unitVars, urlVars, cfgVars, poolVars, orchVars, probeVars, panicked>>

\* ... pool.wg.Wait() returns once every worker has exited; then
\* close(config.Warnings) and close(config.Errors), each if the call made
\* that channel, and the return to the caller.
Return ==
  /\ ~panicked
  /\ mainpc = "wait"
  /\ exited >= newHttpWorkerPool(MaxConcurrentRequests)
  /\ warningsClosed' = config.WarningsNil
  /\ errorsClosed' = config.ErrorsNil
  /\ mainpc' = "returned"
  /\ UNCHANGED <<errorsLog, warningsLog>>
  /\ UNCHANGED <<idx, resultMap, resbuf, resultsClosed, delivered>>
  /\ UNCHANGED <<unitVars, urlVars, cfgVars, poolVars, orchVars, probeVars, panicked>>

\* -------------------------------------------------------------------- Next
Next ==
  \/ WorkerTake
  \/ WorkerDeliver
  \/ WorkerExit
  \/ BlockedSenderPanics
  \/ \E d \in Domains : Validate(d)
  \/ \E d \in Domains : Report(d)
  \/ \E d \in Domains : SendResultToLoop(d)
  \/ \E d \in Domains : SendResultToBuffer(d)
  \/ \E d \in Domains : FetchRoot(d)
  \/ \E d \in Domains : Discover(d)
  \/ \E d \in Domains : Collect(d)
  \/ \E d \in Domains : Select(d)
  \/ \E c \in Probes : ProbeGet(c)
  \/ \E c \in Probes : ProbeReport(c)
  \/ ReceiveOne
  \/ CloseResults
  \/ CloseJobs
  \/ Return

Spec == Init /\ [][Next]_vars

\* ================================================================ claims
ProbesOf(d) == {c \in Probes : c[1] = d}
Signals(ops) == {i \in 1..Len(ops) : ops[i] \in {"result", "failure"}}

\* C1: at every moment the number of requests in flight (jobs a worker has
\* taken and not yet answered) is at most MaxConcurrentRequests, however many
\* callers are blocked in get.
C1_InFlightBounded == Cardinality(inflight) <= MaxConcurrentRequests

\* C1 witness: the pool is full while further callers wait for a worker.
C1_Witness ==
  /\ Cardinality(inflight) = MaxConcurrentRequests
  /\ Len(jobsq) >= 1

\* C2: every probe sends exactly one signal over its life, a success or a
\* failure: a probe that has not classified its result yet has sent nothing,
\* one that has is committed to exactly one signal (sent or still to send),
\* and one that has finished has sent exactly one.
C2_ExactlyOneSignal ==
  \A c \in Probes :
    /\ Len(sent[c]) <= 1
    /\ ppc[c] \in {"unborn", "get", "await"} => sent[c] = <<>>
    /\ ppc[c] \in {"run", "done"} => Len(sent[c]) + Cardinality(Signals(todo[c])) = 1
    /\ ppc[c] = "done" => Len(sent[c]) = 1

\* C2 witness: two probes of one group have finished, one with a success and
\* one with a failure that followed a report.
C2_Witness ==
  \E c1, c2 \in Probes :
    /\ c1[1] = c2[1]
    /\ ppc[c1] = "done" /\ sent[c1] = <<"result">>
    /\ ppc[c2] = "done" /\ sent[c2] = <<"failure">>
    /\ errorsLog[c1[1]] > 0

\* results() has returned for domain d.
Collected(d) == opc[d] = "SendResult" \/ (opc[d] = "Done" /\ spawned[d] > 0)

\* C3: for a group with N spawns, results() makes exactly N receive steps,
\* the successes and failures it consumed sum to N, and what it returns is
\* exactly the icons of the probes that signalled success, each once.
C3_CollectExactlyN ==
  \A d \in Domains :
    /\ collected[d] <= spawned[d]
    /\ Len(images[d]) + failures[d] = collected[d]
    /\ Collected(d) =>
         /\ collected[d] = spawned[d]
         /\ Len(images[d]) <= spawned[d]
         /\ {images[d][i] : i \in 1..Len(images[d])}
              = {picon[c] : c \in {p \in ProbesOf(d) : "result" \in {sent[p][i] : i \in 1..Len(sent[p])}}}
         /\ Cardinality({images[d][i] : i \in 1..Len(images[d])}) = Len(images[d])

\* C3 witness: a group of two probes has been collected, one success and one
\* failure.
C3_Witness ==
  \E d \in Domains :
    /\ Collected(d)
    /\ spawned[d] = 2
    /\ Len(images[d]) = 1
    /\ failures[d] = 1

\* C4: within one orchestration no spawn is issued once results() has begun
\* to collect (it has been entered or has made a receive step).
C4_SpawnBeforeCollect ==
  [][\A d \in Domains :
       (opc[d] \in {"Collecting", "SendResult", "Done"} \/ collected[d] > 0)
         => spawned'[d] = spawned[d]]_vars

\* C4 witness: collection has begun for a domain whose favicon probe and whose
\* manifest's probe were both spawned before.
C4_Witness ==
  \E d \in Domains :
    /\ collected[d] > 0
    /\ requests[d] = 2
    /\ spawned[d] = 2

\* The collection of GetIcons (the receive of GetIcon) is over.
CollectionOver == mainpc \notin {"collect", "call"}

\* The icon pickBestImage returned for domain d (Nil: none, or not run).
SelectorIcon(d) == IF opc[d] \in {"SendResult", "Done"} THEN out[d] ELSE Nil

\* Nothing can happen any more: every goroutine has ended or is blocked for
\* good, or the process has died.
Quiescent == ~ENABLED Next

\* C5: every orchestrator delivers exactly one outcome to the caller's
\* collection: never two, and once the collection is over one from each
\* requested domain.
C5_ExactlyOneOutcome ==
  \A d \in Domains :
    /\ delivered[d] <= 1
    /\ (CollectionOver /\ d \in CallDomains) => delivered[d] = 1

\* C6: the map GetIcons returns has a key d exactly when the selector returned
\* an icon for d's orchestration; no key maps to a nil icon and every key is a
\* requested domain.
C6_MapIffSelected ==
  (mode = "GetIcons" /\ CollectionOver) =>
    /\ \A d \in Domains : d \in DOMAIN resultMap <=> SelectorIcon(d) # Nil
    /\ \A d \in DOMAIN resultMap : resultMap[d] # Nil /\ d \in CallDomains

\* C7: GetIcons returns for every list of domains: as every run of the call is
\* finite, this says that whenever nothing more can happen (all goroutines
\* ended or blocked, or the process died) GetIcons has returned.
C7_GetIconsReturns ==
  (mode = "GetIcons" /\ Quiescent) => mainpc = "returned"

\* C8: for a domain that fails validation the orchestrator makes one report
\* and terminates: it submits no request to the pool, spawns no probe and
\* yields absence.
C8_InvalidDomainStops ==
  \A d \in CallDomains :
    ~valid[d] =>
      /\ opc[d] \in {"Validating", "ReportInvalid", "SendInvalid", "Done"}
      /\ requests[d] = 0
      /\ spawned[d] = 0
      /\ errorsLog[d] + warningsLog[d] <= 1
      /\ d \notin DOMAIN resultMap

\* C9: GetIcon returns for every domain string (whenever nothing more can
\* happen it has returned), and with absence when the domain fails
\* validation, the root fetch fails or the HTML does not parse.
C9_GetIconReturns ==
  (mode = "GetIcon" /\ Quiescent) =>
    /\ mainpc = "returned"
    /\ (~valid[1] \/ spawned[1] = 0) => 1 \notin DOMAIN resultMap

\* C10: the entry of a valid domain d depends on d's own orchestration alone,
\* whatever else is in the list: once the collection is over d's orchestrator
\* has delivered its one outcome and the map holds exactly that outcome.
C10_OwnEntry ==
  (mode = "GetIcons" /\ CollectionOver) =>
    \A d \in CallDomains :
      valid[d] =>
        /\ opc[d] = "Done"
        /\ delivered[d] = 1
        /\ d \in DOMAIN resultMap <=> out[d] # Nil
        /\ d \in DOMAIN resultMap => resultMap[d] = out[d]

\* C11: when the root fetch of a (valid) domain ends in a transport error,
\* processDomain has made its one report on the warning sink by the time it
\* sends the result, has spawned no probe and sends absence.
C11_RootFetchFailureWarns ==
  \A d \in CallDomains :
    (valid[d] /\ opc[d] = "SendFetchFail") =>
      /\ warningsLog[d] = 1
      /\ spawned[d] = 0
      /\ out[d] = Nil

\* ============================================== functions run on their own
\* No call is running: the variables of GetIcons / GetIcon are at rest.
NoCall ==
  /\ mode = "none"
  /\ ndom = 0
  /\ valid = [d \in Domains |-> TRUE]
  /\ config = [SquareOnly |-> TRUE, TargetHeight |-> MaxDim,
               ErrorsNil |-> TRUE, WarningsNil |-> TRUE,
               ErrorsDrained |-> TRUE]
  /\ mainpc = "returned"
  /\ idx = 0
  /\ resultMap = <<>>
  /\ resbuf = <<>>
  /\ resultsClosed = FALSE
  /\ jobsq = <<>>
  /\ jobsClosed = FALSE
  /\ idle = 0
  /\ inflight = {}
  /\ exited = 0
  /\ errorsClosed = FALSE
  /\ warningsClosed = FALSE
  /\ errorsLog = [d \in Domains |-> 0]
  /\ warningsLog = [d \in Domains |-> 0]
  /\ opc = [d \in Domains |-> "Absent"]
  /\ out = [d \in Domains |-> Nil]
  /\ page = [d \in Domains |-> <<>>]
  /\ served = 0
  /\ spawned = [d \in Domains |-> 0]
  /\ collected = [d \in Domains |-> 0]
  /\ images = [d \in Domains |-> <<>>]
  /\ failures = [d \in Domains |-> 0]
  /\ ppc = [c \in Probes |-> "unborn"]
  /\ todo = [c \in Probes |-> <<>>]
  /\ picon = [c \in Probes |-> Nil]
  /\ sent = [c \in Probes |-> <<>>]
  /\ delivered = [d \in Domains |-> 0]
  /\ requests = [d \in Domains |-> 0]
  /\ getAfterClose = FALSE
  /\ panicked = FALSE
  /\ host = [d \in Domains |-> NoHost]
  /\ ourl = [d \in Domains |-> <<>>]
  /\ purl = [c \in Probes |-> <<>>]

\* What the transport can answer to the attempts of one httpGet: some
\* retryable failures, then one answer from there on, for MaxAttempts
\* attempts and one more.
RetryOutcomes == {o \in AttemptOutcomes : o \in {"neterr", "s500", "readerr"}}
GetScripts ==
  UNION { { f \o Repeat(l, MaxAttempts + 1 - k) : f \in [1..k -> RetryOutcomes], l \in AttemptOutcomes } :
          k \in 0..MaxAttempts }

\* httpGet(url) against a transport that answers arg.script and serves arg.body.
ApplyGet ==
  /\ fn = "httpGet"
  /\ ret = <<>>
  /\ ret' = << [result |-> httpResult(arg.script, arg.body),
                attempts |-> httpGet(arg.script).attempts] >>
  /\ UNCHANGED <<fn, arg>>
  /\ UNCHANGED <<urlVars, cfgVars, mainVars, poolVars, sinkVars, orchVars, probeVars, panicked>>

\* The image lists pickBestImage is run on: up to MaxCands images, each with
\* a height of 1..MaxDim+1 and a width equal to it or one more; the image at
\* position i carries i as its source.
PickDims == {<<w, h>> \in (1..(MaxDim + 2)) \X (1..(MaxDim + 1)) : w \in {h, h + 1}}
PickImages ==
  UNION { { [i \in 1..n |-> [src |-> <<1, i>>, width |-> f[i][1], height |-> f[i][2]]] :
            f \in [1..n -> PickDims] } : n \in 0..MaxCands }

\* pickBestImage(squareOnly, targetHeight, images).
ApplyPick ==
  /\ fn = "pickBestImage"
  /\ ret = <<>>
  /\ ret' = << pickBestImage(arg.squareOnly, arg.targetHeight, arg.images) >>
  /\ UNCHANGED <<fn, arg>>
  /\ UNCHANGED <<urlVars, cfgVars, mainVars, poolVars, sinkVars, orchVars, probeVars, panicked>>

\* getImage(url) against a transport that answers arg.script and serves
\* arg.body: the channel operations it performs, in order.
ApplyImage ==
  /\ fn = "getImage"
  /\ ret = <<>>
  /\ ret' = << getImage(httpResult(arg.script, arg.body)) >>
  /\ UNCHANGED <<fn, arg>>
  /\ UNCHANGED <<urlVars, cfgVars, mainVars, poolVars, sinkVars, orchVars, probeVars, panicked>>

\* processManifest(domain, manifestUrl, workers) against a transport that
\* answers arg.script and serves arg.body.
ApplyManifest ==
  /\ fn = "processManifest"
  /\ ret = <<>>
  /\ ret' = << processManifest(httpResult(arg.script, arg.body)) >>
  /\ UNCHANGED <<fn, arg>>
  /\ UNCHANGED <<urlVars, cfgVars, mainVars, poolVars, sinkVars, orchVars, probeVars, panicked>>

\* The documents getImagesFromHTML is run on: an html element with a head of
\* up to MaxElems children and a body. The children of the head are link
\* elements of some rel, meta elements of some itemprop, each with an empty
\* or a relative href / content, and a title; the body is empty or holds an
\* icon link, directly or inside a div.
LinkRels == iconRelValues \cup {"manifest", "mask-icon", "msapplication-TileImage", "stylesheet"}
Hrefs == {<<>>, IconHref}
HeadKids ==
  {Element("link", rel, href, <<>>) : rel \in LinkRels, href \in Hrefs}
  \cup {Element("meta", itemprop, content, <<>>) : itemprop \in {"image", "name"}, content \in Hrefs}
  \cup {Element("title", "", <<>>, <<>>)}
BodyKids ==
  { <<>>,
    <<Element("link", "icon", IconHref, <<>>)>>,
    <<Element("div", "", <<>>, <<Element("meta", "image", IconHref, <<>>)>>)>> }
Documents ==
  UNION { { Element("html", "", <<>>,
                    <<Element("head", "", <<>>, h), Element("body", "", <<>>, b)>>) :
            h \in [1..n -> HeadKids], b \in BodyKids } : n \in 0..MaxElems }

\* getImagesFromHTML(doc, redirectDomain, &workers).
ApplyScan ==
  /\ fn = "getImagesFromHTML"
  /\ ret = <<>>
  /\ ret' = << getImagesFromHTML(arg.node, arg.domain) >>
  /\ UNCHANGED <<fn, arg>>
  /\ UNCHANGED <<urlVars, cfgVars, mainVars, poolVars, sinkVars, orchVars, probeVars, panicked>>

\* The paths getURL is given: empty, relative, rooted, protocol-relative,
\* absolute, and such with a segment that does not parse.
UrlPaths ==
  { <<>>, IconHref, <<Slash>> \o IconHref, <<Slash, Slash>> \o IconHref,
    <<Scheme, Name(2), Slash>> \o IconHref,
    <<BadEscape>>, <<Slash, BadEscape>>, <<Scheme, Name(2), Slash, BadEscape>> }

\* workers.spawn(getURL(domain, path)): the url getURL returns, the url
\* getImage goes on with after its own test, and the url httpGet builds its
\* request from.
ApplyURL ==
  /\ fn = "getURL"
  /\ ret = <<>>
  /\ LET url == getURL(arg.domain, arg.path) IN
     ret' = << [url |-> url,
                probe |-> withScheme(url),
                request |-> withScheme(withScheme(url)),
                get |-> httpGetRequest(withScheme(url)).step] >>
  /\ UNCHANGED <<fn, arg>>
  /\ UNCHANGED <<urlVars, cfgVars, mainVars, poolVars, sinkVars, orchVars, probeVars, panicked>>

\* processDomain from the answer to its root fetch to the start of the scan,
\* against a transport that answers arg.script and serves arg.body from the
\* host arg.host.
ApplyRoot ==
  /\ fn = "processDomain"
  /\ ret = <<>>
  /\ LET r == httpResult(arg.script, arg.body) IN
     ret' = << [next |-> processRoot(r), spawns |-> rootSpawns(r, arg.host)] >>
  /\ UNCHANGED <<fn, arg>>
  /\ UNCHANGED <<urlVars, cfgVars, mainVars, poolVars, sinkVars, orchVars, probeVars, panicked>>

\* The icons a page of host "1" links: a bitmap and a vector drawing.
SvgHref == <<"icon.svg">>
IconUrl == getURL(Name(1), IconHref)
SvgUrl == getURL(Name(1), SvgHref)
\* What the probes of one domain are answered: the url ending in .svg serves
\* an SVG document or is not found, the other one serves an image of some
\* size, something that is no image, or cannot be reached.
Answers ==
  {[url |-> SvgUrl, r |-> httpResult(<<o>>, SvgBody)] : o \in {"s200", "s404"}}
  \cup {[url |-> IconUrl, r |-> httpResult(<<"s200">>, b)] :
          b \in [kind : {"image"}, dim : Dims] \cup {[kind |-> "notimage"]}}
  \cup {[url |-> IconUrl, r |-> httpResult(Repeat("neterr", MaxAttempts), NoBody)]}
AnswerLists == UNION { [1..n -> Answers] : n \in 0..MaxCands }

\* workers.results() once the probes of answers[1..k] have sent their
\* signals, in this order: the images of those that sent a result.
RECURSIVE results(_, _)
results(answers, k) ==
  IF k = 0 THEN <<>>
  ELSE LET ops == getImage(answers[k].r)
           rest == results(answers, k - 1)
       IN IF "result" \in {ops[i] : i \in 1..Len(ops)}
          THEN Append(rest, imageData(<<1, k>>, answers[k].r))
          ELSE rest

\* The end of processDomain for a domain whose probes were answered
\* arg.answers: `pickBestImage(config, workers.results())`.
ApplySelect ==
  /\ fn = "select"
  /\ ret = <<>>
  /\ ret' = << pickBestImage(arg.config.SquareOnly, arg.config.TargetHeight,
                             results(arg.answers, Len(arg.answers))) >>
  /\ UNCHANGED <<fn, arg>>
  /\ UNCHANGED <<urlVars, cfgVars, mainVars, poolVars, sinkVars, orchVars, probeVars, panicked>>

\* The arguments the function f is run on.
FnArgs(f) ==
  CASE f = "httpGet" -> [script : GetScripts, body : ProbeBodies]
    [] f = "pickBestImage" ->
         [squareOnly : BOOLEAN, targetHeight : 0..(MaxDim + 2), images : PickImages]
    [] f = "getImage" -> [script : Scripts, body : ProbeBodies \cup {SvgBody}]
    [] f = "processManifest" -> [script : Scripts, body : ManifestBodies]
    [] f = "getImagesFromHTML" -> [node : Documents, domain : {Name(1)}]
    [] f = "processDomain" -> [script : Scripts, body : RootBodies, host : {Name(1)}]
    [] f = "getURL" -> [domain : {Name(1), Name(2)}, path : UrlPaths]
    [] f = "select" ->
         [config : [AllowSvg : BOOLEAN, SquareOnly : BOOLEAN, TargetHeight : {MaxDim}],
          answers : AnswerLists]

FnInit ==
  /\ NoCall
  /\ fn \in {"httpGet", "pickBestImage", "getImage", "select", "processManifest",
            "getImagesFromHTML", "getURL", "processDomain"}
  /\ arg \in FnArgs(fn)
  /\ ret = <<>>

FnNext ==
  \/ ApplyGet
  \/ ApplyPick
  \/ ApplyImage
  \/ ApplySelect
  \/ ApplyManifest
  \/ ApplyScan
  \/ ApplyURL
  \/ ApplyRoot

FnSpec == FnInit /\ [][FnNext]_vars

\* The function under study has returned.
Returned(f) == fn = f /\ Len(ret) = 1

\* The first attempt of the script that reads a response with a status below
\* 500 (0: none of the first MaxAttempts does).
FirstRead(script) ==
  LET reads == {i \in 1..Len(script) : i <= MaxAttempts /\ script[i] \in {"s200", "s404"}}
  IN IF reads = {} THEN 0 ELSE CHOOSE i \in reads : \A j \in reads : i <= j

C13_NoStaleError ==
  Returned("httpGet") =>
    LET r == ret[1]
        k == FirstRead(arg.script)
    IN k # 0 => /\ ~r.result.err
                /\ r.result.status = StatusOf(arg.script[k])
                /\ r.result.body = arg.body

\* A get has returned a 404 and its body after two failed attempts.
C13_Witness ==
  /\ Returned("httpGet")
  /\ SubSeq(arg.script, 1, 3) = <<"neterr", "s500", "s404">>
  /\ ret[1].result = [err |-> FALSE, status |-> 404, body |-> arg.body]
  /\ ret[1].attempts = 3

\* Caller c has sent its job and is blocked receiving the result.
Awaiting(c) ==
  IF c[2] = 0 THEN opc[c[1]] \in {"AwaitRoot", "AwaitManifest"} ELSE ppc[c] = "await"

\* The callers blocked in their send on pool.jobs.
Queued == {jobsq[i] : i \in 1..Len(jobsq)}

\* C14: http.close() has returned only when every worker the pool started has
\* exited, and then no job that a worker accepted is still without its
\* result: no worker holds a job and no caller waits for the result of one.
C14_CloseWaitsForWorkers ==
  mainpc = "returned" =>
    /\ exited = newHttpWorkerPool(MaxConcurrentRequests)
    /\ idle = 0
    /\ inflight = {}
    /\ \A c \in Callers : Awaiting(c) => c \in Queued

\* close() has begun and is waiting: one worker has exited, another still
\* holds a job it accepted before pool.jobs was closed.
C14_Witness ==
  /\ mainpc = "wait"
  /\ jobsClosed
  /\ exited >= 1
  /\ inflight # {}
  /\ ~panicked

\* C15: no caller (processDomain for its root page or a manifest, a probe)
\* reaches pool.get after close(pool.jobs).
C15_NoGetAfterClose == ~getAfterClose

FinalHostOf(d) == UrlHost(finalURL(<<Scheme, Name(d)>>))

\* C17: every url of the orchestration of d that was built from a relative
\* reference (the favicon probe, the link and meta candidates, the manifest
\* url, the manifest's icons) has the host the root fetch was redirected to,
\* and the outcome is stored under the requested domain d itself.
C17_ResolvedAgainstFinalHost ==
  /\ DOMAIN resultMap \subseteq CallDomains
  /\ \A d \in CallDomains :
       /\ \A c \in ProbesOf(d) :
            ppc[c] # "unborn" =>
              /\ Len(purl[c]) >= 2
              /\ purl[c][1] = Scheme
              /\ UrlHost(purl[c]) = FinalHostOf(d)
       /\ requests[d] >= 2 => UrlHost(ourl[d]) = FinalHostOf(d)
       /\ d \in DOMAIN resultMap =>
            /\ resultMap[d].src[1] = d
            /\ UrlHost(purl[resultMap[d].src]) = FinalHostOf(d)

\* GetIcons has returned an icon for a domain whose root was redirected and
\* whose page linked a manifest with an icon.
C17_Witness ==
  /\ mainpc = "returned"
  /\ \E d \in DOMAIN resultMap :
       /\ FinalHostOf(d) # Name(d)
       /\ requests[d] = 2
       /\ spawned[d] = 2
       /\ \A c \in ProbesOf(d) : c[2] <= 2 => ppc[c] = "done"

\* processDomain is past a successful root fetch and html.Parse.
Parsed(d) ==
  \/ host[d] # NoHost
  \/ opc[d] \in {"Discovering", "AwaitManifest", "ReportManifest", "Collecting", "SendResult"}

\* C18: once the root fetch and the HTML parse of a domain have succeeded, the
\* first probe of the domain is spawned and its url is /favicon.ico at the
\* resolved host, whatever the page holds.
C18_FaviconAlwaysProbed ==
  \A d \in CallDomains :
    Parsed(d) =>
      /\ spawned[d] >= 1
      /\ ppc[<<d, 1>>] # "unborn"
      /\ purl[<<d, 1>>] = <<Scheme, FinalHostOf(d)>> \o FaviconPath

\* The page linked a manifest that could not be used; the favicon probe is
\* the only probe of the domain and gave the domain's icon.
C18_Witness ==
  \E d \in DOMAIN resultMap :
    /\ requests[d] = 2
    /\ spawned[d] = 1
    /\ errorsLog[d] >= 1
    /\ resultMap[d].src = <<d, 1>>

\* The positions of arg.images that pass the SquareOnly filter, and those of
\* them whose height reaches the target.
Survivors ==
  {i \in 1..Len(arg.images) :
     arg.squareOnly => arg.images[i].width = arg.images[i].height}
Qualifying == {i \in Survivors : arg.images[i].height >= arg.targetHeight}

\* C19: when some surviving candidate has a height of at least TargetHeight,
\* the selector returns a surviving candidate whose height is the least of
\* the surviving heights that reach TargetHeight.
C19_SmallestAcceptable ==
  (Returned("pickBestImage") /\ Qualifying # {}) =>
    \E i \in Qualifying :
      /\ ret[1] = arg.images[i]
      /\ \A j \in Qualifying : arg.images[i].height <= arg.images[j].height

\* Three square candidates in the order tall, short, exactly the target
\* height: the one that equals the target is returned.
C19_Witness ==
  /\ Returned("pickBestImage")
  /\ arg.squareOnly
  /\ Len(arg.images) = 3
  /\ arg.targetHeight = 2
  /\ [i \in 1..3 |-> arg.images[i].height] = <<3, 1, 2>>
  /\ Survivors = 1..3
  /\ ret[1] = arg.images[3]

\* C20: when no surviving candidate reaches TargetHeight the selector
\* returns a surviving candidate of the greatest height, and it returns
\* absence exactly when nothing survives.
C20_LargestOrAbsent ==
  Returned("pickBestImage") =>
    /\ (Qualifying = {} /\ Survivors # {}) =>
         \E i \in Survivors :
           /\ ret[1] = arg.images[i]
           /\ \A j \in Survivors : arg.images[i].height >= arg.images[j].height
    /\ ret[1] = Nil <=> Survivors = {}

\* Two square candidates below the target and a taller one that is not
\* square: the taller square one is returned.
C20_Witness ==
  /\ Returned("pickBestImage")
  /\ arg.squareOnly
  /\ Len(arg.images) = 3
  /\ Survivors = {1, 3}
  /\ arg.images[2].height > arg.images[3].height
  /\ arg.images[3].height > arg.images[1].height
  /\ arg.targetHeight > arg.images[2].height
  /\ ret[1] = arg.images[3]

\* C21: with SquareOnly set, an icon the selector returns has its width equal
\* to its height, and when none of the collected candidates is square the
\* selector returns absence, whatever candidates were collected.
C21_SquareOnlyReturnsSquare ==
  (Returned("pickBestImage") /\ arg.squareOnly) =>
    /\ ret[1] # Nil => ret[1].width = ret[1].height
    /\ (\A i \in 1..Len(arg.images) : arg.images[i].width # arg.images[i].height)
         => ret[1] = Nil

\* SquareOnly with two candidates, neither of them square and both at least
\* as tall as the target: the selector returned absence.
C21_Witness ==
  /\ Returned("pickBestImage")
  /\ arg.squareOnly
  /\ Len(arg.images) = 2
  /\ \A i \in 1..2 : /\ arg.images[i].width # arg.images[i].height
                      /\ arg.images[i].height >= arg.targetHeight
  /\ ret[1] = Nil

\* The answers of arg.answers that fetched an SVG successfully, and whether
\* the icon the domain ends with is one of them.
SvgFetched ==
  {i \in 1..Len(arg.answers) :
     /\ arg.answers[i].url = SvgUrl
     /\ ~arg.answers[i].r.err
     /\ arg.answers[i].r.status = 200}
SvgReturned == ret[1] # Nil /\ ret[1].src[2] \in SvgFetched

\* C22: with AllowSvg set, a domain one of whose candidates is an SVG (its
\* url ends in .svg and it was fetched) ends with an SVG candidate as its
\* icon, whatever TargetHeight, SquareOnly and the other candidates are.
C22_SvgSupersedes ==
  (Returned("select") /\ arg.config.AllowSvg /\ SvgFetched # {}) => SvgReturned

\* C23: without AllowSvg the icon of a domain is never an SVG, whether or
\* not SVG candidates were fetched and whatever else was collected.
C23_NoSvgUnlessAllowed ==
  (Returned("select") /\ ~arg.config.AllowSvg) => ~SvgReturned

\* AllowSvg is off and the SVG that was fetched is the only candidate that
\* answered with a document: the domain has no icon.
C23_Witness ==
  /\ Returned("select")
  /\ ~arg.config.AllowSvg
  /\ Len(arg.answers) = 2
  /\ SvgFetched = {1}
  /\ arg.answers[2].r.err
  /\ ret[1] = Nil

\* What http.get answered the getImage under study, and how many of the
\* channel operations in ops are sends on the channel ch.
Fetched == httpResult(arg.script, arg.body)
Sends(ops, ch) == Cardinality({i \in 1..Len(ops) : ops[i] = ch})

\* C24: a probe whose fetch ends in a transport error sends one report on
\* the error sink and none on the warning sink, then signals one failure and
\* does nothing else.
C24_TransportErrorReported ==
  (Returned("getImage") /\ Fetched.err) =>
    /\ Sends(ret[1], "errors") = 1
    /\ Sends(ret[1], "warnings") = 0
    /\ Sends(ret[1], "failure") = 1
    /\ Sends(ret[1], "result") = 0
    /\ \E i, j \in 1..Len(ret[1]) :
         i < j /\ ret[1][i] = "errors" /\ ret[1][j] = "failure"

\* Every attempt of the probe's fetch failed in the transport: the probe
\* reported and then signalled its failure.
C24_Witness ==
  /\ Returned("getImage")
  /\ arg.script = Repeat("neterr", MaxAttempts)
  /\ ret[1] = <<"errors", "failure">>

\* C25: a probe whose fetch returns a status other than 200, or an image
\* that cannot be decoded, sends one report on the warning sink and none on
\* the error sink, and signals one failure.
C25_SoftFailureWarns ==
  (/\ Returned("getImage")
   /\ ~Fetched.err
   /\ Fetched.status # 200 \/ Fetched.body.kind \in {"badimage", "badico"}) =>
    /\ Sends(ret[1], "warnings") = 1
    /\ Sends(ret[1], "errors") = 0
    /\ Sends(ret[1], "failure") = 1

\* C26: a probe whose fetch returns status 200 and a body that is not an
\* image signals one failure and sends nothing on either sink.
C26_NotAnImageSilent ==
  (/\ Returned("getImage")
   /\ ~Fetched.err
   /\ Fetched.status = 200
   /\ ~isImage(Fetched.body)) =>
    ret[1] = <<"failure">>

\* The fetch succeeded at once with a body that is not an image: the probe
\* signalled its failure and reported nothing.
C26_Witness ==
  /\ Returned("getImage")
  /\ arg.script = <<"s200">>
  /\ arg.body.kind = "notimage"
  /\ Sends(ret[1], "failure") = 1
  /\ Len(ret[1]) = 1

\* C27: a manifest whose fetch fails in the transport or returns a status
\* other than 200 is reported as a warning and not as an error, a manifest
\* that is malformed JSON is reported as an error, and in all three cases
\* the manifest processor spawns no probe and does nothing else.
C27_ManifestFailureReports ==
  Returned("processManifest") =>
    /\ (Fetched.err \/ Fetched.status # 200) => ret[1] = <<"warnings">>
    /\ (~Fetched.err /\ Fetched.status = 200 /\ Fetched.body.kind = "badjson")
         => ret[1] = <<"errors">>

\* The goroutines that are at a send on config.Errors: orchestrators at one
\* of processDomain's or processManifest's reports, probes at one of
\* getImage's.
Reporting ==
  {Orch(d) : d \in {e \in Domains :
     opc[e] \in {"ReportInvalid", "ReportFetch", "ReportParse", "ReportManifest"}}}
  \cup {c \in Probes : ppc[c] = "run" /\ todo[c] # <<>> /\ Head(todo[c]) = "errors"}

HeadOf == arg.node.kids[1].kids
Spawned == SelectSeq(ret[1], LAMBDA o : o.op = "spawn")

\* C29: a link of the head with rel "mask-icon" or "msapplication-TileImage"
\* and a non-empty href is an icon source: the scan spawns a probe for its
\* resolved href.
C29_MaskIconIsSource ==
  Returned("getImagesFromHTML") =>
    \A i \in 1..Len(HeadOf) :
      (/\ HeadOf[i].data = "link"
       /\ HeadOf[i].key \in {"mask-icon", "msapplication-TileImage"}
       /\ HeadOf[i].val # <<>>) =>
        \E j \in 1..Len(Spawned) : Spawned[j].url = getURL(arg.domain, HeadOf[i].val)

\* What the scan is to do with the i-th child of the head: hand a manifest
\* to the manifest processor, spawn a probe, or nothing.
Due(i) ==
  LET c == HeadOf[i] IN
  IF c.val = <<>> THEN "nothing"
  ELSE IF c.data = "link" /\ c.key = "manifest" THEN "processManifest"
  ELSE IF c.data = "link"
          /\ c.key \in {"icon", "image_src", "apple-touch-icon", "shortcut icon", "img", "image"}
       THEN "spawn"
  ELSE IF c.data = "meta" /\ c.key = "image" THEN "spawn"
  ELSE "nothing"
Acted == {i \in 1..Len(HeadOf) : Due(i) # "nothing"}

Absolute(path) == Len(path) >= 2 /\ path[1] = Scheme /\ path[2] \in HostNames
RECURSIVE Unrooted(_)
Unrooted(path) ==
  IF path # <<>> /\ Head(path) = Slash THEN Unrooted(Tail(path)) ELSE path

\* C31: resolving a non-empty path against a domain gives the path itself
\* when it is absolute, and otherwise https://domain, one slash and the path
\* without its leading slashes, whether it had none, one or two of them.
C31_OneSeparatingSlash ==
  (Returned("getURL") /\ arg.path # <<>>) =>
    ret[1].url = IF Absolute(arg.path) THEN arg.path
                 ELSE <<Scheme, arg.domain, Slash>> \o Unrooted(arg.path)

\* C32: the url resolution produces is absolute: resolving it again gives the
\* same url, and the tests of the probe and of the dispatcher that prefix
\* https:// to what is not a url leave it as it is.
C32_ResolvedIsAbsolute ==
  Returned("getURL") =>
    /\ getURL(arg.domain, ret[1].url) = ret[1].url
    /\ ret[1].probe = ret[1].url
    /\ ret[1].request = ret[1].url

\* The place of each position of processDomain in the orchestrator's state
\* machine: 1 Validating, 2 FetchingRoot, 3 Parsing, 4 Discovering,
\* 5 Collecting, 6 Selecting, 7 Done.
Stage(pc) ==
  CASE pc \in {"Validating", "ReportInvalid", "SendInvalid"} -> 1
    [] pc \in {"FetchingRoot", "AwaitRoot", "ReportFetch", "SendFetchFail"} -> 2
    [] pc \in {"ReportParse", "SendParseFail"} -> 3
    [] pc \in {"Discovering", "AwaitManifest", "ReportManifest"} -> 4
    [] pc = "Collecting" -> 5
    [] pc = "SendResult" -> 6
    [] pc = "Done" -> 7
\* The positions of the early exits: the report and the delivery of the nil
\* outcome of an invalid domain, a failed root fetch and a page that does
\* not parse.
EarlyExit ==
  {"ReportInvalid", "SendInvalid", "ReportFetch", "SendFetchFail", "ReportParse", "SendParseFail"}

\* C33: an orchestrator never goes back to an earlier state; once it has
\* taken an early exit (from Validating, FetchingRoot or Parsing) it goes on
\* to Done and to nothing else; it reaches Done only by delivering an
\* outcome; and it runs the selector only when every probe it spawned has
\* been collected.
C33_OrchestratorOrder ==
  [][\A d \in Domains :
       (opc[d] # "Absent" /\ opc'[d] # opc[d]) =>
         /\ Stage(opc'[d]) >= Stage(opc[d])
         /\ opc[d] \in EarlyExit => opc'[d] \in EarlyExit \cup {"Done"}
         /\ opc'[d] = "Done" => opc[d] \in SendPcs
         /\ opc'[d] = "SendResult" =>
              /\ opc[d] = "Collecting"
              /\ collected[d] = spawned[d]
              /\ \A c \in ProbesOf(d) : ppc[c] \in {"unborn", "done"}]_vars

\* C34: a root fetch that returns a 4xx status and no transport error does
\* not end the domain: when the body parses, processDomain goes on to the
\* scan and has spawned the probe of /favicon.ico.
C34_ErrorPageIsScanned ==
  (/\ Returned("processDomain")
   /\ ~Fetched.err
   /\ Fetched.status \in 400..499
   /\ Fetched.body.kind = "html") =>
    /\ ret[1].next = "Discovering"
    /\ ret[1].spawns = << <<Scheme, arg.host>> \o FaviconPath >>

\* The root page was answered 404 after two failed attempts, with a page
\* that parses: the scan is next and /favicon.ico is probed.
C34_Witness ==
  /\ Returned("processDomain")
  /\ arg.script = <<"neterr", "neterr", "s404">>
  /\ arg.body.kind = "html"
  /\ ret[1].next = "Discovering"
  /\ Len(ret[1].spawns) = 1

\* C35: the selector returns one of its input candidates, and of the
\* surviving candidates that have the height of the returned one it is the
\* first in scan order: a later candidate of equal height never replaces an
\* earlier one.
C35_EarlierWinsTies ==
  (Returned("pickBestImage") /\ ret[1] # Nil) =>
    \E i \in Survivors :
      /\ ret[1] = arg.images[i]
      /\ \A j \in Survivors :
           arg.images[j].height = arg.images[i].height => i <= j

\* Three square candidates of the same height, above the target: the first
\* one is returned.
C35_Witness ==
  /\ Returned("pickBestImage")
  /\ Len(arg.images) = 3
  /\ Survivors = 1..3
  /\ \A i \in 1..3 : arg.images[i].height = arg.images[1].height
  /\ arg.images[1].height > arg.targetHeight
  /\ ret[1] = arg.images[1]

\* The outcomes processDomain(d) has sent on the results channel so far.
Outcomes(d) == delivered[d] + (IF mode = "GetIcon" /\ d = 1 THEN Len(resbuf) ELSE 0)

\* C36: a report made on behalf of a domain is taken by its sink before the
\* domain's outcome is sent and before the call returns, and no goroutine is
\* at a report once the call has closed the sink it created.
C36_ReportsBeforeOutcome ==
  /\ [](errorsClosed => Reporting = {})
  /\ [][\A d \in Domains :
         errorsLog'[d] + warningsLog'[d] > errorsLog[d] + warningsLog[d] =>
           Outcomes(d) = 0 /\ mainpc # "returned"]_vars

\* C37: the call closes the Errors and the Warnings channel exactly when it
\* made them itself, the Config field being nil: a channel the caller
\* supplied is never closed, a channel the call made is closed when it
\* returns, and the caller's Config is never changed.
C37_ClosesOnlyOwnSinks ==
  /\ [](/\ errorsClosed => config.ErrorsNil
        /\ warningsClosed => config.WarningsNil
        /\ mainpc = "returned" =>
             /\ errorsClosed = config.ErrorsNil
             /\ warningsClosed = config.WarningsNil)
  /\ [][config' = config]_vars

\* GetIcons has returned to a caller that supplied both channels and
\* received a report on Errors: both channels are still open.
C37_Witness ==
  /\ mode = "GetIcons"
  /\ mainpc = "returned"
  /\ ~config.ErrorsNil /\ ~config.WarningsNil
  /\ \E d \in Domains : errorsLog[d] > 0
  /\ ~errorsClosed /\ ~warningsClosed

\* The position of caller c: of processDomain for its root page and manifest
\* requests, of a probe for its own.
PcOf(c) == IF c[2] = 0 THEN opc[c[1]] ELSE ppc[c]

\* C38: under every interleaving a caller of pool.get waits in exactly one
\* place, blocked sending its job or with its job held by a worker, never
\* twice in the queue; every job in flight is held by one worker; and the
\* result of the job of c is received by c itself, which runs on, while every
\* other waiting caller stays where it is.
C38_OwnResultExactlyOnce ==
  /\ [](~panicked =>
          /\ \A c \in Callers : Awaiting(c) => (c \in Queued) # (c \in inflight)
          /\ \A i, j \in 1..Len(jobsq) : jobsq[i] = jobsq[j] => i = j
          /\ inflight \cup Queued \subseteq {c \in Callers : Awaiting(c)}
          /\ Cardinality(inflight) + idle + exited = newHttpWorkerPool(MaxConcurrentRequests))
  /\ [][\A c \in inflight \ inflight' :
          /\ inflight' = inflight \ {c}
          /\ idle' = idle + 1
          /\ PcOf(c)' # PcOf(c)
          /\ c \notin Queued'
          /\ \A e \in Callers \ {c} : Awaiting(e) => PcOf(e)' = PcOf(e)]_vars

\* Two probes of one domain had their jobs in flight together: one has its
\* result and failed, the job of the other is still with its worker, and the
\* root page request of another domain waits in the queue.
C38_Witness ==
  /\ ~panicked
  /\ \E c \in inflight, e \in Probes :
       /\ c[2] # 0
       /\ e[1] = c[1]
       /\ e # c
       /\ ppc[e] = "run"
       /\ idle = 1
  /\ \E q \in Queued : q[2] = 0

\* C39: a candidate url no request can be built from does not stop the
\* worker that serves it: httpGet returns to the worker, with an httpResult
\* that carries the error, and does not panic.
C39_MalformedUrlFailsProbe ==
  Returned("getURL") => ret[1].get # "panic"

\* ------------------------------------------------------------- progress
\* The scheduling of the Go runtime: a goroutine that can run does run. A
\* worker that can receive a job receives one, a worker that holds a job
\* finishes it (every attempt of the transport returns, and there are at most
\* MaxAttempts), and the program as a whole does not stop while a goroutine
\* can take a step. Nothing is assumed of the reader of a sink the caller
\* supplied.
LiveSpec ==
  /\ Init
  /\ [][Next]_vars
  /\ WF_vars(WorkerTake)
  /\ WF_vars(WorkerDeliver)
  /\ WF_vars(Next)

\* C40: a caller that is blocked in get on the open jobs channel gets its
\* result: it leaves the queue, its job is served and it runs on, whoever
\* else waits and whatever the jobs served before it returned.
C40_GetReturns ==
  \A c \in Callers : (c \in Queued /\ ~jobsClosed) ~> ~Awaiting(c)

====
